---- MODULE Spec2Model ----
(***************************************************************************)
(* VuGru Music MVP: the generate_music handler with its per-client-IP      *)
(* admission flag (active_requests), the 15-minute in-memory track cache   *)
(* (track_cache), the best-effort persistence of generated tracks          *)
(* (storage bucket and user_tracks table), and the resolution of bearer    *)
(* tokens for the protected handlers.                                      *)
(*                                                                         *)
(* Request handlers are coroutines on one event loop: a handler runs       *)
(* without interruption from one suspension to the next.  generate_music   *)
(* suspends at `await client.post(...)` (main.py:172) and when the         *)
(* `async with httpx.AsyncClient` block is left (main.py:169); the         *)
(* storage and track services are `async def` but call the synchronous     *)
(* client without awaiting anything, so they do not suspend.               *)
(***************************************************************************)
EXTENDS Integers, Sequences, FiniteSets, TLC

\* ---------------------------------------------------------------- bounds
NumHandlers == 2      \* generate_music coroutines that can be in flight at once
TickMinutes == 5      \* minutes the wall clock advances per Tick
MaxMinutes == 20      \* the clock stops advancing here
MaxUuid == 2          \* uuid4 values that go into stored names before saves stop succeeding
NumTrackIds == 2      \* size of the (truncated md5) track id space
MaxCached == 6        \* longest cache the listing of recent tracks is tried on
MaxCredits == 100     \* most credits the provider's quota message says remain

\* ------------------------------------------------------ program constants
MinDuration == 10
MaxDuration == 60
CacheMinutes == 15
RecentLimit == 5
TwiceCreditsPerSecond == 45    \* credits_per_second = 22.5
FallbackMaxDuration == 20

\* ------------------------------------------------------------ input sets
Handlers == 1..NumHandlers
TrackIds == 1..NumTrackIds
Users == {"u", "v"}
Audio == {"mp3a", "mp3b"}
Prompts == {"ambient pad"}
Durations == {MinDuration - 1, MinDuration, MaxDuration, MaxDuration + 1}
NoClient == "none"
NoUser == "nouser"
NoAudio == "noaudio"
NoTrack == 0
NoToken == "notoken"
Tokens == {"t1", "t2"}

\* The transport-level origin of a request: the X-Forwarded-For header as the
\* list of its comma separated entries (<<>>: header absent or empty) and the
\* peer address (NoClient: request.client is None).
Origins ==
  { [forwarded |-> <<>>, host |-> "a"],
    [forwarded |-> <<"a", "b">>, host |-> "b"],
    [forwarded |-> <<>>, host |-> NoClient] }

VARIABLES
  env,              \* environment configuration, fixed for the process
  active_requests,  \* main.py:47  dict client_ip -> bool
  track_cache,      \* main.py:48  dict track_id -> entry, in insertion order
  handlers,         \* the generate_music coroutines
  now,              \* datetime.now(), in minutes
  bucket,           \* objects of the storage bucket "music-tracks"
  user_tracks,      \* rows of the table "user_tracks"
  uuid_counter,     \* uuid4 values that went into stored names so far
  put_log,          \* history: per track id, the payload and time of its last caching
  last              \* the event of the step just taken: a response, or the provider's answer

vars == <<env, active_requests, track_cache, handlers, now, bucket,
          user_tracks, uuid_counter, put_log, last>>

\* ------------------------------------------------------------- helpers
\* main.py:55-60
get_client_ip(request) ==
  IF request.forwarded # <<>> THEN request.forwarded[1]
  ELSE IF request.host # NoClient THEN request.host
  ELSE "unknown"

ClientKeys == { get_client_ip(o) : o \in Origins }

\* One flag for all clients: any request in progress blocks every client
is_active_any(ip) == \E k \in DOMAIN active_requests : active_requests[k]

\* main.py:121  client_ip in active_requests and active_requests[client_ip]
is_active(ip) == ip \in DOMAIN active_requests /\ active_requests[ip]

\* dict item assignment d[k] = v
dict_set(d, k, v) == [x \in DOMAIN d \cup {k} |-> IF x = k THEN v ELSE d[x]]

\* The lower bound forgotten
validate_duration_upper_only(duration) == duration <= MaxDuration

\* services/eleven_music.py:90-92, main.py:128
validate_duration(duration) == MinDuration <= duration /\ duration <= MaxDuration

\* main.py:74-80  the prompt sent to the provider and stored with the track
enhance_music_prompt(user_prompt, duration) == <<user_prompt, duration>>

\* ------------------------------------------------------------ the cache
\* The comparison turned around at the limit: a track expires at 15 minutes
is_expired_at_limit(created_at, current_time) ==
  current_time - created_at >= CacheMinutes

\* main.py:68  current_time - data["created_at"] > timedelta(minutes=15)
is_expired(created_at, current_time) == current_time - created_at > CacheMinutes

\* The sweep stopping at the first entry it removes
clean_cache_first_only(cache, current_time) ==
  IF \E i \in 1..Len(cache) : is_expired(cache[i].created_at, current_time)
  THEN LET i == CHOOSE j \in 1..Len(cache) :
                  /\ is_expired(cache[j].created_at, current_time)
                  /\ \A k \in 1..(j - 1) :
                       ~is_expired(cache[k].created_at, current_time)
       IN SubSeq(cache, 1, i - 1) \o SubSeq(cache, i + 1, Len(cache))
  ELSE cache

\* main.py:62-72
clean_cache(cache, current_time) ==
  SelectSeq(cache, LAMBDA e : ~is_expired(e.created_at, current_time))

cache_ids(cache) == { cache[i].track_id : i \in 1..Len(cache) }

cache_index(cache, track_id) ==
  CHOOSE i \in 1..Len(cache) : cache[i].track_id = track_id

\* dict.setdefault instead of item assignment: a track id already cached
\* keeps its old entry
cache_store_keep_first(cache, entry) ==
  IF entry.track_id \in cache_ids(cache) THEN cache ELSE Append(cache, entry)

\* main.py:260-266  track_cache[track_id] = {...}: a key already present keeps
\* its place in the dict's order, a new key goes last
cache_store(cache, entry) ==
  IF entry.track_id \in cache_ids(cache)
  THEN [cache EXCEPT ![cache_index(cache, entry.track_id)] = entry]
  ELSE Append(cache, entry)

\* main.py:319  track_cache[track_id]
cache_lookup(cache, track_id) == cache[cache_index(cache, track_id)]

RemoveAt(s, i) == SubSeq(s, 1, i - 1) \o SubSeq(s, i + 1, Len(s))

\* main.py:335  sorted(track_cache.items(), key=created_at, reverse=True): a
\* stable sort, entries created at the same time keep the dict's order
RECURSIVE sorted_by_created_at_desc(_)
sorted_by_created_at_desc(s) ==
  IF s = <<>> THEN <<>>
  ELSE LET i == CHOOSE j \in 1..Len(s) :
                  /\ \A k \in 1..Len(s) : s[k].created_at <= s[j].created_at
                  /\ \A k \in 1..(j - 1) : s[k].created_at < s[j].created_at
       IN <<s[i]>> \o sorted_by_created_at_desc(RemoveAt(s, i))

\* The [:5] forgotten
recent_slice_all(s) == s

\* main.py:335  [:5]
recent_slice(s) == SubSeq(s, 1, IF Len(s) < RecentLimit THEN Len(s) ELSE RecentLimit)

\* main.py:334-344  the listed tracks
recent_tracks(cache) ==
  LET top == recent_slice(sorted_by_created_at_desc(cache))
  IN [i \in 1..Len(top) |->
        [id |-> top[i].track_id, duration |-> top[i].duration,
         created_at |-> top[i].created_at]]

\* ---------------------------------------------------------- persistence
\* Names of stored things.  A uuid4 string and an 8-digit track id are never
\* the same string, so the two kinds are kept apart.
UuidName(n) == <<"uuid", n>>
TrackName(track_id) == <<"track", track_id>>

\* What the storage provider does with one upload_track call
UploadOutcomes == {"upload_raises", "signed_url_raises", "ok"}
\* What the table store does with one insert
InsertOutcomes == {"insert_raises", "no_row", "ok"}
\* What the table store does with one delete
DeleteOutcomes == {"delete_raises", "ok"}
\* What the storage provider does with one remove
RemoveOutcomes == {"remove_raises", "ok"}

\* storage_service.py:47-81  StorageService.upload_track.  The result says
\* whether the call raised (HTTPException 503 unconfigured, 500 otherwise), the
\* bucket afterwards, how many uuid4 values went into stored names (a uuid4
\* drawn for a name that is never stored is not counted) and the returned URL
\* (the name of the uploaded object).
upload_track(user_id, outcome) ==
  IF ~env.SUPABASE
  THEN [raised |-> TRUE, status |-> 503, bucket |-> bucket, drawn |-> 0, url |-> <<>>]
  ELSE LET unique_filename == [user |-> user_id, name |-> UuidName(uuid_counter + 1)]
       IN CASE outcome = "upload_raises" ->
                 [raised |-> TRUE, status |-> 500, bucket |-> bucket, drawn |-> 0,
                  url |-> <<>>]
            [] outcome = "signed_url_raises" ->
                 [raised |-> TRUE, status |-> 500,
                  bucket |-> bucket \cup {unique_filename}, drawn |-> 1, url |-> <<>>]
            [] OTHER ->
                 [raised |-> FALSE, status |-> 200,
                  bucket |-> bucket \cup {unique_filename}, drawn |-> 1,
                  url |-> unique_filename.name]

\* storage/track_service.py:38-92  TrackService.save_track, called with
\* track_data.id unset.  `drawn_before` is the number of uuid4 values drawn
\* before the call.  The result says whether the call raised, the TrackResponse
\* it returned otherwise, and the table afterwards.
save_track(track_data, drawn_before, outcome) ==
  IF ~env.SUPABASE
  THEN [raised |-> TRUE, status |-> 503, rows |-> user_tracks, drawn |-> 0,
        response |-> <<>>]
  ELSE LET id == UuidName(drawn_before + 1)
           row == [id |-> id, user_id |-> track_data.user_id,
                   file_url |-> track_data.file_url,
                   storage_path |-> track_data.storage_path]
           response == [id |-> id, file_url |-> track_data.file_url,
                        file_name |-> track_data.file_name]
       IN CASE outcome = "insert_raises" ->
                 [raised |-> FALSE, status |-> 200, rows |-> user_tracks, drawn |-> 0,
                  response |-> response]
            [] outcome = "no_row" ->
                 [raised |-> TRUE, status |-> 500, rows |-> user_tracks, drawn |-> 0,
                  response |-> <<>>]
            [] OTHER ->
                 [raised |-> FALSE, status |-> 200, rows |-> user_tracks \cup {row},
                  drawn |-> 1, response |-> response]

\* The upload guarded by a try of its own: when it fails the metadata is saved
\* all the same, with an empty file_url
persist_track_saving_anyway(user_id, track_id, upload_outcome, insert_outcome) ==
  LET up == upload_track(user_id, upload_outcome)
      track_data == [user_id |-> user_id,
                     file_url |-> up.url,
                     file_name |-> TrackName(track_id),
                     storage_path |-> [user |-> user_id, name |-> TrackName(track_id)]]
      sv == save_track(track_data, uuid_counter + up.drawn, insert_outcome)
  IN [bucket |-> up.bucket, rows |-> sv.rows, drawn |-> up.drawn + sv.drawn,
      saves |-> 1, save |-> IF sv.raised THEN "raised" ELSE "returned",
      surfaced |-> FALSE, status |-> 200]

\* The save with the services' own `except HTTPException: raise` in front of
\* the catch-all: an HTTPException of upload_track or save_track surfaces
persist_track_reraising(user_id, track_id, upload_outcome, insert_outcome) ==
  LET up == upload_track(user_id, upload_outcome)
      track_data == [user_id |-> user_id,
                     file_url |-> up.url,
                     file_name |-> TrackName(track_id),
                     storage_path |-> [user |-> user_id, name |-> TrackName(track_id)]]
      sv == save_track(track_data, uuid_counter + up.drawn, insert_outcome)
  IN IF up.raised
     THEN [bucket |-> up.bucket, rows |-> user_tracks, drawn |-> up.drawn,
           saves |-> 0, save |-> "", surfaced |-> TRUE, status |-> up.status]
     ELSE [bucket |-> up.bucket, rows |-> sv.rows, drawn |-> up.drawn + sv.drawn,
           saves |-> 1, save |-> IF sv.raised THEN "raised" ELSE "returned",
           surfaced |-> sv.raised, status |-> sv.status]

\* main.py:230-256  the best-effort save of a generated track: any exception of
\* upload_track or save_track is caught and logged.  `saves` counts the calls
\* of save_track, `save` says how the call ended ("": it was not made)
persist_track(user_id, track_id, upload_outcome, insert_outcome) ==
  LET up == upload_track(user_id, upload_outcome)
      track_data == [user_id |-> user_id,
                     file_url |-> up.url,
                     file_name |-> TrackName(track_id),
                     storage_path |-> [user |-> user_id, name |-> TrackName(track_id)]]
      sv == save_track(track_data, uuid_counter + up.drawn, insert_outcome)
  IN IF up.raised
     THEN [bucket |-> up.bucket, rows |-> user_tracks, drawn |-> up.drawn,
           saves |-> 0, save |-> "", surfaced |-> FALSE, status |-> 200]
     ELSE [bucket |-> up.bucket, rows |-> sv.rows, drawn |-> up.drawn + sv.drawn,
           saves |-> 1, save |-> IF sv.raised THEN "raised" ELSE "returned",
           surfaced |-> FALSE, status |-> 200]

\* ------------------------------------------------------------ responses
NoResp ==
  [op |-> "none", status |-> 0, detail |-> "", client_ip |-> "", user |-> NoUser,
   duration |-> 0, audio |-> NoAudio, track_id |-> NoTrack, tracks |-> <<>>,
   calls |-> 0, h |-> 0, outcome |-> "", upload |-> "", insert |-> "", save |-> "",
   removes |-> 0, token |-> "", resolved |-> NoUser, credits |-> 0,
   max_duration |-> 0]

Resp(op, status, detail) == [NoResp EXCEPT !.op = op, !.status = status, !.detail = detail]

IdleHandler ==
  [pc |-> "idle", client_ip |-> "", user |-> NoUser, prompt |-> "", duration |-> 0,
   calls |-> 0, status |-> 0, detail |-> "", audio |-> NoAudio, track_id |-> NoTrack,
   credits |-> 0, max_duration |-> 0]

\* ----------------------------------------------------------------- Init
Init ==
  /\ env \in [ELEVENLABS_API_KEY : BOOLEAN, SUPABASE : BOOLEAN]
  /\ active_requests = [ip \in {} |-> FALSE]
  /\ track_cache = <<>>
  /\ handlers = [h \in Handlers |-> IdleHandler]
  /\ now = 0
  /\ bucket = {}
  /\ user_tracks = {}
  /\ uuid_counter = 0
  /\ put_log = [t \in {} |-> 0]
  /\ last = NoResp

\* ------------------------------------------------------ the provider call
\* What `await client.post(...)` (main.py:172) can come back with
\* "401_quota_credits": a 401 whose JSON body mentions quota_exceeded and whose
\*   detail.message states the credits remaining and required
\* "401_quota_other": the same with a message of another wording (or none)
\* "401_quota_bad_detail": a 401 whose JSON body mentions quota_exceeded and has
\*   no .get on it or on its "detail" (a list, or "detail" a string)
\* "401_other": a 401 whose JSON body does not mention quota_exceeded
\* "401_not_json": a 401 whose body response.json() cannot parse
ProviderOutcomes ==
  {"200", "429", "401_quota_credits", "401_quota_other", "401_quota_bad_detail",
   "401_other", "401_not_json", "500", "timeout", "request_error"}

\* main.py:178-221, 283-303  the response for a provider outcome other than 200
classify(outcome) ==
  CASE outcome = "429" -> [status |-> 429, detail |-> "rate_limit"]
    [] outcome = "401_quota_credits" -> [status |-> 402, detail |-> "credits"]
    [] outcome = "401_quota_other" -> [status |-> 402, detail |-> "credits_fallback"]
    [] outcome = "401_other" -> [status |-> 401, detail |-> "auth_failed"]
    [] outcome = "401_quota_bad_detail" -> [status |-> 500, detail |-> "unexpected"]
    [] outcome = "401_not_json" -> [status |-> 500, detail |-> "unexpected"]
    [] outcome = "500" -> [status |-> 500, detail |-> "generate_failed"]
    [] outcome = "timeout" -> [status |-> 504, detail |-> "timeout"]
    [] OTHER -> [status |-> 500, detail |-> "connect_failed"]

\* round() in place of int(): the quotient rounded to the nearest second
max_affordable_duration_rounded(remaining) ==
  (4 * remaining + TwiceCreditsPerSecond) \div (2 * TwiceCreditsPerSecond)

\* main.py:198-199  int(remaining / credits_per_second): the float quotient
\* remaining / 22.5, truncated.  remaining is a non-negative integer (it
\* matched \d+) and 22.5 is a double; for remaining up to 2^53 the rounded
\* quotient has the integer part of the exact quotient 2 * remaining / 45.
max_affordable_duration(remaining) ==
  (2 * remaining) \div TwiceCreditsPerSecond

\* main.py:199-208  the duration the 402 response suggests (0: not a 402)
suggested_duration(outcome, remaining) ==
  CASE outcome = "401_quota_credits" -> max_affordable_duration(remaining)
    [] outcome = "401_quota_other" -> FallbackMaxDuration
    [] OTHER -> 0

\* The admission without its in-progress check
admission_unguarded(client_ip, duration) ==
  IF ~validate_duration(duration) THEN [status |-> 400, detail |-> "bad_duration"]
  ELSE IF ~env.ELEVENLABS_API_KEY THEN [status |-> 500, detail |-> "not_configured"]
  ELSE [status |-> 0, detail |-> "admitted"]

\* main.py:120-141  what generate_music decides before it admits a request
admission(client_ip, duration) ==
  IF is_active(client_ip) THEN [status |-> 429, detail |-> "in_progress"]
  ELSE IF ~validate_duration(duration) THEN [status |-> 400, detail |-> "bad_duration"]
  ELSE IF ~env.ELEVENLABS_API_KEY THEN [status |-> 500, detail |-> "not_configured"]
  ELSE [status |-> 0, detail |-> "admitted"]

\* The rejecting checks moved inside the try block, whose finally clause then
\* clears the flag of the client key when a request is turned away
flags_after_admission_in_try(client_ip, verdict) ==
  IF verdict.detail = "admitted"
  THEN dict_set(active_requests, client_ip, TRUE)
  ELSE dict_set(active_requests, client_ip, FALSE)

\* main.py:120-144  active_requests once generate_music has decided on a
\* request: the three rejections are raised before the flag is touched and
\* outside the try block whose finally clause clears it
flags_after_admission(client_ip, verdict) ==
  IF verdict.detail = "admitted"
  THEN dict_set(active_requests, client_ip, TRUE)
  ELSE active_requests

\* The finally clause forgotten: the flag is never cleared
release_forgotten(client_ip, status) == active_requests

\* The flag cleared at the end of the try body instead of in a finally clause
release_on_success(client_ip, status) ==
  IF status = 200 THEN dict_set(active_requests, client_ip, FALSE) ELSE active_requests

\* main.py:304-306  finally: active_requests[client_ip] = False
release(client_ip, status) == dict_set(active_requests, client_ip, FALSE)

\* -------------------------------------------------------------- actions
\* main.py:111-176  generate_music up to its first suspension: either a
\* rejection (the coroutine ends at once) or the admission and the provider
\* call being sent.  An admitted request runs as the first idle coroutine.
generate_music_begin(h, request, current_user, user_prompt, duration) ==
  LET client_ip == get_client_ip(request)
      verdict == admission(client_ip, duration)
  IN IF verdict.detail # "admitted"
     THEN /\ last' = [Resp("generate_music", verdict.status, verdict.detail)
                        EXCEPT !.client_ip = client_ip, !.duration = duration]
          /\ active_requests' = flags_after_admission(client_ip, verdict)
          /\ UNCHANGED <<env, track_cache, handlers, now, bucket,
                         user_tracks, uuid_counter, put_log>>
     ELSE /\ handlers[h].pc = "idle"
          /\ \A g \in 1..(h - 1) : handlers[g].pc # "idle"
          /\ active_requests' = flags_after_admission(client_ip, verdict)
          /\ handlers' = [handlers EXCEPT ![h] =
                            [IdleHandler EXCEPT !.pc = "awaiting_post",
                                                !.client_ip = client_ip,
                                                !.user = current_user,
                                                !.prompt = user_prompt,
                                                !.duration = duration,
                                                !.calls = 1]]
          /\ last' = NoResp
          /\ UNCHANGED <<env, track_cache, now, bucket, user_tracks, uuid_counter,
                         put_log>>

\* A retry on throttling: when the provider answers 429 the request is sent
\* once more instead of the response being decided
closing_retrying_throttle(me, status, detail, audio_data, track_id) ==
  IF status = 429 /\ me.calls < 2
  THEN [me EXCEPT !.calls = me.calls + 1]
  ELSE [IdleHandler EXCEPT !.pc = "closing", !.client_ip = me.client_ip,
                           !.duration = me.duration,
                           !.calls = me.calls, !.status = status, !.detail = detail,
                           !.audio = audio_data, !.track_id = track_id]

\* The coroutine once its response is decided: of its locals only those the
\* response and the finally clause read are kept
closing(me, status, detail, audio_data, track_id) ==
  [IdleHandler EXCEPT !.pc = "closing", !.client_ip = me.client_ip,
                      !.duration = me.duration,
                      !.calls = me.calls, !.status = status, !.detail = detail,
                      !.audio = audio_data, !.track_id = track_id]

\* main.py:172-281  the provider call returns: the outcome is classified and,
\* for audio, the track is saved best-effort and cached; the coroutine then
\* suspends leaving the `async with` block
provider_responds(h, outcome, audio_data, track_id, upload_outcome, insert_outcome, remaining) ==
  LET me == handlers[h]
      prompt == enhance_music_prompt(me.prompt, me.duration)
      saved == persist_track(me.user, track_id, upload_outcome, insert_outcome)
      entry == [track_id |-> track_id, audio_data |-> audio_data, prompt |-> prompt,
                duration |-> me.duration, created_at |-> now]
  IN /\ me.pc = "awaiting_post"
     /\ IF outcome # "200"
        THEN /\ handlers' = [handlers EXCEPT ![h] =
                               [closing(me, classify(outcome).status,
                                        classify(outcome).detail, NoAudio, NoTrack)
                                  EXCEPT !.credits = remaining,
                                         !.max_duration =
                                           suggested_duration(outcome, remaining)]]
             /\ UNCHANGED <<track_cache, bucket, user_tracks, uuid_counter, put_log>>
        ELSE /\ uuid_counter + saved.drawn <= MaxUuid
             /\ bucket' = saved.bucket
             /\ user_tracks' = saved.rows
             /\ uuid_counter' = uuid_counter + saved.drawn
             /\ IF saved.surfaced
                THEN /\ handlers' = [handlers EXCEPT ![h] =
                                       closing(me, saved.status, "persistence",
                                               NoAudio, NoTrack)]
                     /\ UNCHANGED <<track_cache, put_log>>
                ELSE /\ track_cache' = cache_store(clean_cache(track_cache, now), entry)
                     /\ put_log' = dict_set(put_log, track_id,
                                            [audio |-> audio_data, at |-> now])
                     /\ handlers' = [handlers EXCEPT ![h] =
                                       closing(me, 200, "audio", audio_data, track_id)]
     /\ last' = [Resp("provider_responds", 0, "")
                   EXCEPT !.h = h, !.outcome = outcome, !.audio = audio_data,
                          !.track_id = track_id,
                          !.upload = IF outcome # "200" THEN ""
                                     ELSE IF ~env.SUPABASE THEN "unconfigured"
                                     ELSE upload_outcome,
                          !.insert = IF outcome = "200" /\ env.SUPABASE
                                        /\ upload_outcome = "ok"
                                     THEN insert_outcome ELSE "",
                          !.save = IF outcome = "200" THEN saved.save ELSE "",
                          !.credits = remaining]
     /\ UNCHANGED <<env, active_requests, now>>

\* main.py:169, 296-306  the `async with` block is left, the finally clause
\* clears the flag and the response goes out
generate_music_end(h) ==
  LET me == handlers[h]
  IN /\ me.pc = "closing"
     /\ active_requests' = release(me.client_ip, me.status)
     /\ handlers' = [handlers EXCEPT ![h] = IdleHandler]
     /\ last' = [Resp("generate_music", me.status, me.detail)
                   EXCEPT !.client_ip = me.client_ip, !.duration = me.duration,
                          !.audio = me.audio,
                          !.track_id = me.track_id, !.calls = me.calls, !.h = h,
                          !.credits = me.credits, !.max_duration = me.max_duration]
     /\ UNCHANGED <<env, track_cache, now, bucket, user_tracks, uuid_counter,
                    put_log>>

\* main.py:308-327  GET /api/track/{track_id}
get_cached_track(track_id) ==
  LET cleaned == clean_cache(track_cache, now)
  IN /\ track_cache' = cleaned
     /\ last' = IF track_id \notin cache_ids(cleaned)
                THEN [Resp("get_cached_track", 404, "not_found")
                        EXCEPT !.track_id = track_id]
                ELSE [Resp("get_cached_track", 200, "audio")
                        EXCEPT !.track_id = track_id,
                               !.audio = cache_lookup(cleaned, track_id).audio_data]
     /\ UNCHANGED <<env, active_requests, handlers, now, bucket, user_tracks,
                    uuid_counter, put_log>>

\* main.py:329-344  GET /api/recent_tracks
get_recent_tracks ==
  LET cleaned == clean_cache(track_cache, now)
  IN /\ track_cache' = cleaned
     /\ last' = [Resp("get_recent_tracks", 200, "tracks")
                   EXCEPT !.tracks = recent_tracks(cleaned)]
     /\ UNCHANGED <<env, active_requests, handlers, now, bucket, user_tracks,
                    uuid_counter, put_log>>

\* The .eq("user_id", user_id) filter forgotten
rows_to_delete_any_owner(track_name, user_id) ==
  { r \in user_tracks : r.id = track_name }

\* storage/track_service.py:121-138  TrackService.delete_track: the rows it
\* removes (those with this id that belong to this user)
rows_to_delete(track_name, user_id) ==
  { r \in user_tracks : r.id = track_name /\ r.user_id = user_id }

\* main.py:352-364  DELETE /api/user_tracks/{track_id}
delete_user_track(track_name, current_user, delete_outcome, remove_outcome) ==
  LET doomed == rows_to_delete(track_name, current_user)
      storage_path == [user |-> current_user, name |-> track_name]
      answer(status, detail) ==
        [Resp("delete_user_track", status, detail)
           EXCEPT !.user = current_user, !.track_id = track_name]
  IN /\ IF ~env.SUPABASE
        THEN /\ last' = answer(503, "not_configured")
             /\ UNCHANGED <<bucket, user_tracks>>
        ELSE IF delete_outcome = "delete_raises" \/ doomed = {}
        THEN /\ last' = answer(404, "not_found")
             /\ UNCHANGED <<bucket, user_tracks>>
        ELSE /\ user_tracks' = user_tracks \ doomed
             /\ bucket' = IF remove_outcome = "ok" THEN bucket \ {storage_path}
                          ELSE bucket
             /\ last' = [answer(200, "deleted") EXCEPT !.removes = 1,
                                                        !.outcome = remove_outcome]
     /\ UNCHANGED <<env, active_requests, track_cache, handlers, now, uuid_counter,
                    put_log>>

\* the wall clock advances
Tick ==
  /\ now + TickMinutes <= MaxMinutes
  /\ now' = now + TickMinutes
  /\ last' = NoResp
  /\ UNCHANGED <<env, active_requests, track_cache, handlers, bucket, user_tracks,
                 uuid_counter, put_log>>

\* ------------------------------------------------------------- identity
\* What the auth provider makes of a bearer token: the user it resolves the
\* token to, or NoUser when it resolves it to nobody (or raises).
Resolutions == Users \cup {NoUser}

\* What the auth provider does with a sign-up or a sign-in
SignUpOutcomes == {"user_and_session", "user_no_session", "no_user", "raises"}
SignInOutcomes == {"user_and_session", "no_user", "raises"}

\* auth/auth_service.py:10-172  the attributes of the AuthService instance
AuthServiceMethods == {"get_supabase", "sign_up", "sign_in", "sign_out", "get_user"}

\* auth/auth_service.py:14-23  AuthService._get_supabase: whether it raises 503
get_supabase_raises == ~env.SUPABASE

\* auth/auth_service.py:151-172  AuthService.get_user: any exception, the 503
\* of an unconfigured client included, is caught and None returned
get_user(access_token, resolved) ==
  IF get_supabase_raises THEN NoUser ELSE resolved

\* auth/middleware.py:22, 40  `await auth_service.get_current_user(token)`:
\* looking up an attribute the object does not have raises AttributeError
auth_service_get_current_user(access_token, resolved) ==
  IF "get_current_user" \in AuthServiceMethods
  THEN [raised |-> FALSE, user |-> get_user(access_token, resolved)]
  ELSE [raised |-> TRUE, user |-> NoUser]

\* auth/middleware.py:28-56  the dependency of the protected handlers
get_current_user_required(credentials, resolved) ==
  LET got == auth_service_get_current_user(credentials, resolved)
      answer(status, detail, user) ==
        [Resp("get_current_user_required", status, detail)
           EXCEPT !.token = credentials, !.resolved = resolved, !.user = user]
  IN /\ last' = IF credentials = NoToken
                THEN answer(401, "authentication_required", NoUser)
                ELSE IF got.raised
                THEN answer(401, "authentication_failed", NoUser)
                ELSE IF got.user = NoUser
                THEN answer(401, "invalid_credentials", NoUser)
                ELSE answer(200, "user", got.user)
     /\ UNCHANGED <<env, active_requests, track_cache, handlers, now, bucket,
                    user_tracks, uuid_counter, put_log>>

\* auth/middleware.py:14-26, main.py:104-109  GET /api/auth/user, whose
\* dependency get_current_user_optional returns None on any failure
get_auth_user(credentials, resolved) ==
  LET got == auth_service_get_current_user(credentials, resolved)
      current_user == IF credentials = NoToken \/ got.raised THEN NoUser ELSE got.user
      answer(status, detail) ==
        [Resp("get_auth_user", status, detail)
           EXCEPT !.token = credentials, !.resolved = resolved, !.user = current_user]
  IN /\ last' = IF current_user = NoUser THEN answer(401, "not_authenticated")
                ELSE answer(200, "user")
     /\ UNCHANGED <<env, active_requests, track_cache, handlers, now, bucket,
                    user_tracks, uuid_counter, put_log>>

\* main.py:88-91, auth/auth_service.py:25-89  POST /api/auth/signup
signup(user, outcome) ==
  LET answer(status, detail) ==
        [Resp("signup", status, detail) EXCEPT !.user = user, !.outcome = outcome]
  IN /\ last' = IF get_supabase_raises THEN answer(503, "not_configured")
                ELSE CASE outcome = "user_and_session" -> answer(200, "session")
                       [] outcome = "user_no_session" -> answer(200, "temp_token")
                       [] outcome = "no_user" -> answer(400, "failed_to_create")
                       [] OTHER -> answer(400, "signup_failed")
     /\ UNCHANGED <<env, active_requests, track_cache, handlers, now, bucket,
                    user_tracks, uuid_counter, put_log>>

\* main.py:93-96, auth/auth_service.py:91-133  POST /api/auth/signin
signin(user, outcome) ==
  LET answer(status, detail) ==
        [Resp("signin", status, detail) EXCEPT !.user = user, !.outcome = outcome]
  IN /\ last' = IF get_supabase_raises THEN answer(503, "not_configured")
                ELSE CASE outcome = "user_and_session" -> answer(200, "session")
                       [] outcome = "no_user" -> answer(401, "invalid_login")
                       [] OTHER -> answer(401, "signin_failed")
     /\ UNCHANGED <<env, active_requests, track_cache, handlers, now, bucket,
                    user_tracks, uuid_counter, put_log>>

StoredNames == { UuidName(n) : n \in 1..MaxUuid } \cup { TrackName(t) : t \in TrackIds }

\* generate_music requests: `hs` the coroutines, the other parameters the sets
\* the requests and the answers of the provider and of the store are drawn from
GenerateTraffic(hs, origins, users, durations, outcomes, audio, ids, uploads, inserts, credits) ==
  \/ \E h \in hs, request \in origins, u \in users, p \in Prompts, d \in durations :
       generate_music_begin(h, request, u, p, d)
  \/ \E h \in hs, o \in outcomes \ {"200"} :
       \E r \in (IF o = "401_quota_credits" THEN credits ELSE {0}) :
         provider_responds(h, o, NoAudio, NoTrack, "ok", "ok", r)
  \/ \E h \in hs, a \in audio, t \in ids, uo \in uploads, io \in inserts :
       provider_responds(h, "200", a, t, uo, io, 0)
  \/ \E h \in hs : generate_music_end(h)

\* Concurrent clients at the admission gate.
Next ==
  GenerateTraffic(Handlers, Origins, {"u"}, Durations, ProviderOutcomes, {"mp3a"}, {1},
                  UploadOutcomes, InsertOutcomes, {MaxCredits})

Spec == Init /\ [][Next]_vars

\* The admission gate under fair scheduling.  The traffic is that of Next
\* with two durations and a store that always fails.  The request handlers
\* never starve: the event loop resumes a coroutine whose await has completed,
\* the provider call is bounded by its 120 s timeout (main.py:169) and closing
\* the client ends.
FairNext ==
  GenerateTraffic(Handlers, Origins, {"u"}, {MinDuration, MaxDuration + 1},
                  ProviderOutcomes, {"mp3a"}, {1}, {"upload_raises"}, {"ok"},
                  {MaxCredits})

Fairness ==
  \A h \in Handlers :
    /\ WF_vars(\E o \in ProviderOutcomes :
                 provider_responds(h, o, "mp3a", 1, "upload_raises", "ok", 0))
    /\ WF_vars(generate_music_end(h))

FairSpec == Init /\ [][FairNext]_vars /\ Fairness

\* The cache over time: the generations of one client, which succeed or fail,
\* reads of the cache and the clock.  Saving to the store always fails here
\* (it is best-effort).
CacheNext ==
  \/ GenerateTraffic(Handlers, {[forwarded |-> <<>>, host |-> "a"]}, {"u"},
                     {MinDuration}, {"200", "500"}, Audio, TrackIds,
                     {"upload_raises"}, {"ok"}, {MaxCredits})
  \/ \E t \in TrackIds : get_cached_track(t)
  \/ get_recent_tracks
  \/ Tick

\* Both providers are configured
InitConfigured == Init /\ env.ELEVENLABS_API_KEY /\ env.SUPABASE

CacheSpec == InitConfigured /\ [][CacheNext]_vars

\* The store: generations of two users that the provider always answers with
\* audio, and deletions.
StoreNext ==
  \/ GenerateTraffic({1}, {[forwarded |-> <<>>, host |-> "a"]}, Users, {MinDuration},
                     {"200"}, {"mp3a"}, {1}, UploadOutcomes, InsertOutcomes, {MaxCredits})
  \/ \E n \in StoredNames, u \in Users, do \in DeleteOutcomes, ro \in RemoveOutcomes :
       delete_user_track(n, u, do, ro)

StoreSpec == Init /\ [][StoreNext]_vars

\* The listing of recent tracks, tried on every cache generate_music can have
\* left behind: up to MaxCached tracks in any order of the dict (a track cached
\* again keeps its place), created at clock readings that are not in the future
\* and at most 15 minutes apart (each caching sweeps the cache first).
ClockValues == { m \in 0..MaxMinutes : m % TickMinutes = 0 }

cached_at(track_id, created_at) ==
  [track_id |-> track_id, audio_data |-> "mp3a",
   prompt |-> enhance_music_prompt("ambient pad", MinDuration),
   duration |-> MinDuration, created_at |-> created_at]

InitRecent ==
  /\ env = [ELEVENLABS_API_KEY |-> TRUE, SUPABASE |-> TRUE]
  /\ active_requests = [ip \in {} |-> FALSE]
  /\ handlers = [h \in Handlers |-> IdleHandler]
  /\ now \in ClockValues
  /\ \E k \in 0..MaxCached :
       \E times \in [1..k -> ClockValues] :
         /\ \A i \in 1..k : times[i] <= now
         /\ \A i, j \in 1..k : times[i] - times[j] <= CacheMinutes
         /\ track_cache = [i \in 1..k |-> cached_at(i, times[i])]
         /\ put_log = [i \in 1..k |-> [audio |-> "mp3a", at |-> times[i]]]
  /\ bucket = {}
  /\ user_tracks = {}
  /\ uuid_counter = 0
  /\ last = NoResp

RecentNext ==
  \/ get_recent_tracks
  \/ Tick

RecentSpec == InitRecent /\ [][RecentNext]_vars

\* The identity gateway: sign-ups, sign-ins and the resolution of bearer
\* tokens for the protected handlers, each tried with every answer of the auth
\* provider, with and without its configuration.
AuthNext ==
  \/ \E c \in Tokens \cup {NoToken}, r \in Resolutions : get_current_user_required(c, r)
  \/ \E c \in Tokens \cup {NoToken}, r \in Resolutions : get_auth_user(c, r)
  \/ \E u \in Users, o \in SignUpOutcomes : signup(u, o)
  \/ \E u \in Users, o \in SignInOutcomes : signin(u, o)

AuthSpec == Init /\ [][AuthNext]_vars

\* The provider refusing for lack of credits: the requests of one client, which
\* the provider answers with audio or with a 401 of any kind, the quota
\* message stating any number of remaining credits up to MaxCredits.
QuotaNext ==
  GenerateTraffic({1}, {[forwarded |-> <<>>, host |-> "a"]}, {"u"},
                  {MinDuration, MaxDuration},
                  {"200", "401_quota_credits", "401_quota_other", "401_quota_bad_detail",
                   "401_other", "401_not_json"},
                  {"mp3a"}, {1}, {"upload_raises"}, {"ok"}, 0..MaxCredits)

QuotaSpec == InitConfigured /\ [][QuotaNext]_vars

\* ================================================================ claims
InFlightHandlers(k) ==
  { h \in Handlers : handlers[h].pc \in {"awaiting_post", "closing"}
                     /\ handlers[h].client_ip = k }

\* the step just taken rejected a generate_music request before admission
Rejected == last.op = "generate_music" /\ last.calls = 0

\* the step just taken ended an admitted generate_music request
Finished == last.op = "generate_music" /\ last.calls > 0

\* this step admits a request as coroutine h
Admits(h) == handlers[h].pc = "idle" /\ handlers'[h].pc = "awaiting_post"

\* this step ends coroutine h
Ends(h) == handlers[h].pc = "closing" /\ handlers'[h].pc = "idle"

\* C1: single flight per client key.  At no instant are two generation
\* attempts outstanding for the same key; while one is outstanding no request
\* for that key is admitted, and a request for that key that is turned away
\* gets the in-progress 429 whatever its duration.
C1_NoTwoOutstanding ==
  \A k \in ClientKeys : Cardinality(InFlightHandlers(k)) <= 1

C1_BusyKeyRejected ==
  /\ \A h \in Handlers :
       Admits(h) => InFlightHandlers(handlers'[h].client_ip) = {}
  /\ (Rejected' /\ InFlightHandlers(last'.client_ip) # {})
       => (last'.status = 429 /\ last'.detail = "in_progress")

\* C1: both parts, at every instant and in every step
C1_SingleFlight == []C1_NoTwoOutstanding /\ [][C1_BusyKeyRejected]_vars

\* a request with a valid duration was turned away with the in-progress 429
\* while another request of its client key is outstanding
C1_Witness ==
  /\ Rejected /\ last.status = 429 /\ last.detail = "in_progress"
  /\ last.duration = MaxDuration
  /\ InFlightHandlers(last.client_ip) # {}

\* C2: guaranteed release.  When an admitted generate_music request finishes,
\* on whatever exit path, active_requests of its client key is False; and a
\* flag is True only while a request of that key is outstanding.
C2_GuaranteedRelease ==
  /\ Finished => /\ last.client_ip \in DOMAIN active_requests
                 /\ active_requests[last.client_ip] = FALSE
  /\ \A k \in DOMAIN active_requests :
       active_requests[k] => InFlightHandlers(k) # {}

\* a request that ended in the unexpected-exception path left its flag False
C2_Witness ==
  /\ Finished /\ last.status = 500 /\ last.detail = "unexpected"
  /\ active_requests[last.client_ip] = FALSE

FlagUp(k) == k \in DOMAIN active_requests /\ active_requests[k] = TRUE

FlagValue(k) ==
  IF k \notin DOMAIN active_requests THEN "absent"
  ELSE IF active_requests[k] THEN "true" ELSE "false"

BadDuration(d) == d < MinDuration \/ d > MaxDuration

\* C3: no client is permanently wedged.  Whenever a flag is True it becomes
\* False again, and a request with a valid duration (the API key being set) is
\* turned away only while the flag of its own client key is True: the first
\* valid request after the release is admitted.
C3_EventuallyReleased == \A k \in ClientKeys : FlagUp(k) ~> ~FlagUp(k)

C3_ValidRejectedOnlyWhileBusy ==
  (Rejected /\ ~BadDuration(last.duration) /\ env.ELEVENLABS_API_KEY)
    => (FlagUp(last.client_ip) /\ last.status = 429)

\* C3: every flag that is True becomes False, and valid requests are turned
\* away only while their own flag is True
C3_NotWedged == C3_EventuallyReleased /\ []C3_ValidRejectedOnlyWhileBusy

\* a client key, the only one that ever got a request admitted, has a request
\* outstanding at the provider after an earlier one of its requests was cached:
\* it was admitted again after its release
C3_Witness ==
  \E h \in Handlers :
    /\ handlers[h].pc = "awaiting_post"
    /\ DOMAIN active_requests = {handlers[h].client_ip}
    /\ track_cache # <<>>

\* C4: clients are independent.  A request is admitted only if the flag of its
\* own client key is not True, and is turned away as in progress only if the
\* flag of its own key is True, however many requests of other keys are
\* outstanding; and the flag of a key changes only in a step that admits or
\* ends a request of that very key.
C4_OwnFlagDecides ==
  /\ \A h \in Handlers : Admits(h) => ~FlagUp(handlers'[h].client_ip)
  /\ (Rejected' /\ last'.detail = "in_progress") => FlagUp(last'.client_ip)
  /\ \A k \in ClientKeys :
       FlagValue(k)' # FlagValue(k)
         => \E h \in Handlers : \/ Admits(h) /\ handlers'[h].client_ip = k
                                \/ Ends(h) /\ handlers[h].client_ip = k

\* C4: in every step, only the flag of the request's own key decides and changes
C4_ClientsIndependent == [][C4_OwnFlagDecides]_vars

\* requests of two different client keys are outstanding at once
C4_Witness ==
  \E g, h \in Handlers :
    /\ handlers[g].pc = "awaiting_post" /\ handlers[h].pc = "awaiting_post"
    /\ handlers[g].client_ip # handlers[h].client_ip
    /\ FlagUp(handlers[g].client_ip) /\ FlagUp(handlers[h].client_ip)

\* C8 as stated: a request whose duration is outside [10, 60] is answered 400
\* and no provider call is made for it.
C8_BadDurationIs400 ==
  (last.op = "generate_music" /\ BadDuration(last.duration))
    => (last.status = 400 /\ last.calls = 0)

\* C8, amended: a request whose duration is outside [10, 60] is turned away
\* without a provider call, with 400, or with the in-progress 429 when a
\* request of its client key is outstanding (that check comes first); no
\* coroutine that has called the provider holds such a duration.
C8_BadDurationNeverSent ==
  /\ (last.op = "generate_music" /\ BadDuration(last.duration))
       => /\ last.calls = 0
          /\ last.status = (IF FlagUp(last.client_ip) THEN 429 ELSE 400)
  /\ \A h \in Handlers :
       handlers[h].calls > 0 => ~BadDuration(handlers[h].duration)

\* a request with a duration of 61 seconds was answered 400
C8_Witness ==
  /\ Rejected /\ last.duration = MaxDuration + 1 /\ last.status = 400
  /\ InFlightHandlers(last.client_ip) = {}

\* C10: persistence failures never surface from generation.  Once the
\* provider has returned audio, whatever the upload and the metadata save do,
\* the request is decided as a 200 with that audio, the audio is in the cache
\* under the track id, and the response that goes out is the one decided.
C10_AudioDecidedAndCached ==
  (last.op = "provider_responds" /\ last.outcome = "200")
    => /\ handlers[last.h].pc = "closing"
       /\ handlers[last.h].status = 200
       /\ handlers[last.h].audio = last.audio
       /\ handlers[last.h].track_id = last.track_id
       /\ \E i \in 1..Len(track_cache) :
            /\ track_cache[i].track_id = last.track_id
            /\ track_cache[i].audio_data = last.audio

C10_ResponseAsDecided ==
  \A h \in Handlers :
    Ends(h) => /\ last'.op = "generate_music"
               /\ last'.status = handlers[h].status
               /\ last'.audio = handlers[h].audio
               /\ last'.track_id = handlers[h].track_id

\* C10: audio from the provider is decided, cached and returned as a 200
\* whatever the store does
C10_PersistenceNeverSurfaces ==
  []C10_AudioDecidedAndCached /\ [][C10_ResponseAsDecided]_vars

\* the provider returned audio, the upload worked and the insert returned no
\* row (save_track raised): the request is still decided as a 200
C10_Witness ==
  /\ last.op = "provider_responds" /\ last.outcome = "200"
  /\ last.upload = "ok" /\ last.insert = "no_row"
  /\ handlers[last.h].status = 200

Age(track_id) == now - put_log[track_id].at

\* C5: the cache expiry window.  A GET /api/track/{id} for a track that was
\* cached, its last caching being at time T, answers 200 when the access time
\* t has t - T <= 15 minutes and 404 when t - T > 15 minutes, whatever cache
\* operations came in between.
C5_ExpiryWindow ==
  (last.op = "get_cached_track" /\ last.track_id \in DOMAIN put_log)
    => /\ Age(last.track_id) <= 15 => last.status = 200
       /\ Age(last.track_id) > 15 => last.status = 404

\* a track is read exactly 15 minutes after it was cached, and is returned
C5_Witness ==
  /\ last.op = "get_cached_track" /\ last.track_id \in DOMAIN put_log
  /\ Age(last.track_id) = 15
  /\ last.status = 200

\* C6: the cache round trip.  The audio a successful generation is decided to
\* return is the payload cached under its track id, the response that goes out
\* carries that audio and id, and a GET of the id within 15 minutes of its last
\* caching returns exactly the payload of that last caching.
C6_CachedAsReturned ==
  (last.op = "provider_responds" /\ last.outcome = "200")
    => /\ handlers[last.h].audio = last.audio
       /\ handlers[last.h].track_id = last.track_id
       /\ last.track_id \in cache_ids(track_cache)
       /\ cache_lookup(track_cache, last.track_id).audio_data = last.audio

C6_ReadReturnsLastCached ==
  (last.op = "get_cached_track" /\ last.track_id \in DOMAIN put_log
     /\ Age(last.track_id) <= 15)
    => (last.status = 200 /\ last.audio = put_log[last.track_id].audio)

C6_ResponseCarriesAudio ==
  \A h \in Handlers :
    (Ends(h) /\ handlers[h].status = 200)
      => (last'.audio = handlers[h].audio /\ last'.track_id = handlers[h].track_id)

\* C6: what was returned is what was cached is what a read within 15 minutes
\* returns
C6_RoundTrip ==
  /\ []C6_CachedAsReturned
  /\ []C6_ReadReturnsLastCached
  /\ [][C6_ResponseCarriesAudio]_vars

\* a track id that was cached again with another payload is read and the
\* later payload comes back, while the other track id holds the first payload
C6_Witness ==
  /\ last.op = "get_cached_track" /\ last.status = 200
  /\ last.audio = "mp3b"
  /\ \E e \in { track_cache[i] : i \in 1..Len(track_cache) } :
       e.track_id # last.track_id /\ e.audio_data = "mp3a"

\* C7: GET /api/recent_tracks lists exactly min(5, number of unexpired cache
\* entries) tracks, each an unexpired entry listed once, in descending order of
\* creation time, and no unexpired entry left out is newer than a listed one.
C7_Listing ==
  last'.op = "get_recent_tracks"
    => LET live == { i \in 1..Len(track_cache) :
                       now - track_cache[i].created_at <= 15 }
           out == last'.tracks
           listed == { out[j].id : j \in 1..Len(out) }
       IN /\ Len(out) = (IF Cardinality(live) < 5 THEN Cardinality(live) ELSE 5)
          /\ \A j \in 1..Len(out) :
               \E i \in live : /\ track_cache[i].track_id = out[j].id
                               /\ track_cache[i].created_at = out[j].created_at
          /\ Cardinality(listed) = Len(out)
          /\ \A j \in 1..(Len(out) - 1) : out[j].created_at >= out[j + 1].created_at
          /\ \A i \in live :
               track_cache[i].track_id \notin listed
                 => \A j \in 1..Len(out) :
                      track_cache[i].created_at <= out[j].created_at

\* C7: every listing of recent tracks is the newest min(5, live) entries,
\* newest first
C7_RecentTracks == [][C7_Listing]_vars

\* six unexpired tracks are cached and five are listed
C7_Witness ==
  /\ last.op = "get_recent_tracks"
  /\ Len(track_cache) = 6
  /\ Len(last.tracks) = 5

\* C9: delete is scoped to the owner.  A DELETE /api/user_tracks/{id} by a
\* user for an id whose record belongs to another user answers 404, leaves the
\* table as it is and issues no removal from the bucket.
C9_Delete ==
  (/\ last'.op = "delete_user_track"
   /\ \E r \in user_tracks : r.id = last'.track_id /\ r.user_id # last'.user)
    => /\ last'.status = 404
       /\ user_tracks' = user_tracks
       /\ last'.removes = 0
       /\ bucket' = bucket

\* C9: every delete of another user's track answers 404 and changes nothing
C9_DeleteScopedToOwner == [][C9_Delete]_vars

\* a user asked to delete a track whose record belongs to another user and
\* was answered 404, the record being still there
C9_Witness ==
  /\ last.op = "delete_user_track" /\ last.status = 404
  /\ \E r \in user_tracks : r.id = last.track_id /\ r.user_id # last.user

\* C11 as stated: TrackService.save_track never fails its caller.  Whenever
\* generate_music calls it and the metadata write fails (the insert raises or
\* returns no row) the call returns a TrackResponse instead of raising.
C11_SaveNeverRaises ==
  (last.op = "provider_responds" /\ last.save # "") => last.save = "returned"

\* C12 as stated: a successful DELETE /api/user_tracks/{id} whose removal
\* call to the object store succeeds leaves the bucket without the object that
\* upload_track wrote for the deleted track (the object its file_url names).
C12_Delete ==
  (last'.op = "delete_user_track" /\ last'.status = 200 /\ last'.outcome = "ok")
    => \A r \in user_tracks \ user_tracks' :
         [user |-> r.user_id, name |-> r.file_url] \notin bucket'

\* C12 as stated, for every delete
C12_DeleteRemovesBlob == [][C12_Delete]_vars

\* the records this step adds to the table
NewRecords == user_tracks' \ user_tracks

\* this step is a generate_music call receiving audio from the provider
ReceivesAudio == last'.op = "provider_responds" /\ last'.outcome = "200"

\* C13 as stated: every generate_music call that returns audio creates
\* exactly one record for its user.
C13_ExactlyOne ==
  ReceivesAudio
    => /\ Cardinality(NewRecords) = 1
       /\ \A r \in NewRecords : r.user_id = handlers[last'.h].user

\* C13 as stated, for every call
C13_OneRecordPerGeneration == [][C13_ExactlyOne]_vars

\* C13, amended: a generate_music call that returns audio creates at most one
\* record, for its own user, and removes none: exactly one when the upload and
\* the insert both succeed, none when either fails (the save is best-effort);
\* no other step of generate_music touches the table.
C13_AtMostOne ==
  /\ ReceivesAudio
       => /\ user_tracks \subseteq user_tracks'
          /\ Cardinality(NewRecords) =
               (IF last'.upload = "ok" /\ last'.insert = "ok" THEN 1 ELSE 0)
          /\ \A r \in NewRecords : r.user_id = handlers[last'.h].user
  /\ (~ReceivesAudio /\ last'.op # "delete_user_track")
       => user_tracks' = user_tracks

\* C13, amended, for every step
C13_OneRecordWhenStored == [][C13_AtMostOne]_vars

\* a generation whose upload and insert both succeeded left one record, the
\* only one in the table, for the user that asked
C13_Witness ==
  /\ last.op = "provider_responds" /\ last.outcome = "200"
  /\ last.upload = "ok" /\ last.insert = "ok"
  /\ Cardinality(user_tracks) = 1
  /\ \A r \in user_tracks : r.user_id = "v"

\* C14 as stated: with the auth provider configured,
\* get_current_user_required answers 401 exactly when no bearer token is
\* present or the auth provider does not resolve the token; for a token the
\* provider resolves to a user it returns that user.
C14_ResolveRequired ==
  (last.op = "get_current_user_required" /\ env.SUPABASE)
    => /\ last.status = 401 <=> (last.token = NoToken \/ last.resolved = NoUser)
       /\ (last.token # NoToken /\ last.resolved # NoUser)
            => (last.status = 200 /\ last.user = last.resolved)

\* C15 as stated: missing configuration yields 503 from the affected
\* subsystem.  A generate_music request with a valid duration made while the
\* generation provider API key is absent is answered 503, and so are sign-ups,
\* sign-ins and track deletions while the auth/storage provider is not
\* configured.
C15_MissingConfigIs503 ==
  /\ (last.op = "generate_music" /\ ~env.ELEVENLABS_API_KEY
        /\ ~BadDuration(last.duration))
       => last.status = 503
  /\ (last.op \in {"signup", "signin", "delete_user_track"} /\ ~env.SUPABASE)
       => last.status = 503

\* the response decided for the provider's answer of the step just taken
Decided == handlers[last.h]

\* C16 as stated: a provider 429 surfaces as 429, a provider 401 whose body
\* mentions quota_exceeded as 402, any other provider 401 as 401, any other
\* non-200 status as 500, a timeout as 504 and a connection error as 500.
C16_Classified ==
  (last.op = "provider_responds" /\ last.outcome # "200")
    => Decided.status =
         (CASE last.outcome = "429" -> 429
            [] last.outcome \in {"401_quota_credits", "401_quota_other",
                                 "401_quota_bad_detail"} -> 402
            [] last.outcome \in {"401_other", "401_not_json"} -> 401
            [] last.outcome = "500" -> 500
            [] last.outcome = "timeout" -> 504
            [] last.outcome = "request_error" -> 500)

\* C16 as stated: in none of these cases is a track cached.
C16_NothingCached ==
  (last'.op = "provider_responds" /\ last'.outcome # "200")
    => track_cache' = track_cache

\* C16 as stated: every provider outcome other than audio is classified as
\* listed and caches nothing
C16_ProviderOutcomes == []C16_Classified /\ [][C16_NothingCached]_vars

\* C17: no retries.  Every admitted generate_music request issues exactly one
\* call to the generation provider: a request that is outstanding has made
\* one, whatever the provider answers the response is decided at once with
\* that one call made, and the response of an admitted request goes out after
\* one call; a request turned away before admission has made none.
C17_NoRetries ==
  /\ \A h \in Handlers :
       handlers[h].calls = (IF handlers[h].pc = "idle" THEN 0 ELSE 1)
  /\ last.op = "provider_responds"
       => (Decided.pc = "closing" /\ Decided.calls = 1)
  /\ last.op = "generate_music"
       => last.calls =
            (IF last.detail \in {"in_progress", "bad_duration", "not_configured"}
             THEN 0 ELSE 1)

\* a request the provider throttled was answered 429 after a single call
C17_Witness ==
  /\ last.op = "generate_music" /\ last.status = 429 /\ last.detail = "rate_limit"
  /\ last.calls = 1

\* C18: the quota estimate.  When the provider's quota-exceeded message states
\* R credits remaining the request is decided as a 402 that suggests m seconds
\* with 45 m <= 2 R < 45 (m + 1), that is m = floor(R / 22.5), 4 seconds for
\* R = 100; when the message has another wording it is decided as a 402
\* suggesting the fixed 20 seconds.
C18_Estimate ==
  /\ (last.op = "provider_responds" /\ last.outcome = "401_quota_credits")
       => /\ Decided.status = 402
          /\ 45 * Decided.max_duration <= 2 * last.credits
          /\ 2 * last.credits < 45 * (Decided.max_duration + 1)
          /\ last.credits = 100 => Decided.max_duration = 4
  /\ (last.op = "provider_responds" /\ last.outcome = "401_quota_other")
       => (Decided.status = 402 /\ Decided.max_duration = 20)

\* C18: the response that goes out carries the status and the suggestion decided
C18_ResponseCarriesEstimate ==
  \A h \in Handlers :
    Ends(h) => /\ last'.status = handlers[h].status
               /\ last'.max_duration = handlers[h].max_duration

\* C18: every quota refusal is a 402 with the estimate floor(R / 22.5), or
\* with the fallback suggestion
C18_QuotaEstimate == []C18_Estimate /\ [][C18_ResponseCarriesEstimate]_vars

\* the response to a request refused with 100 credits remaining: 402,
\* suggesting 4 seconds
C18_Witness ==
  /\ last.op = "generate_music" /\ last.status = 402 /\ last.detail = "credits"
  /\ last.credits = 100 /\ last.max_duration = 4

\* C19: rejection leaves shared state untouched.  A step that turns a
\* generate_music request away before admission (in-progress 429, bad-duration
\* 400, missing API key) changes neither active_requests nor track_cache, and
\* a flag that is True for the request in flight stays True.
C19_Rejection ==
  (last'.op = "generate_music"
     /\ last'.detail \in {"in_progress", "bad_duration", "not_configured"})
    => /\ active_requests' = active_requests
       /\ track_cache' = track_cache
       /\ handlers' = handlers
       /\ \A k \in ClientKeys :
            (k = last'.client_ip /\ FlagUp(k)) => FlagUp(k)'

\* C19: every rejection leaves the flags and the cache as they were
C19_RejectionTouchesNothing == [][C19_Rejection]_vars

\* a request was denied as in progress, and the request in flight for its
\* client key still holds the flag, a track being in the cache
C19_Witness ==
  /\ Rejected /\ last.detail = "in_progress"
  /\ FlagUp(last.client_ip) /\ InFlightHandlers(last.client_ip) # {}
  /\ track_cache # <<>>

\* the entries of a cache
Entries(cache) == { cache[i] : i \in 1..Len(cache) }

\* the step just taken was a cache access
CacheAccess ==
  \/ last.op \in {"get_cached_track", "get_recent_tracks"}
  \/ last.op = "provider_responds" /\ last.outcome = "200"

\* C20: the lazy sweep.  Right after any cache access (a read of any track id,
\* the listing, or the insert of a successful generation) no entry of
\* track_cache is older than 15 minutes.
C20_SweptAfterAccess ==
  CacheAccess => \A e \in Entries(track_cache) : now - e.created_at <= 15

\* C20: a step that is not a cache access leaves track_cache as it is, expired
\* entries included; a cache access removes only entries older than 15
\* minutes (an insert also replaces the entry of its own track id).
C20_OnlyAccessRemoves ==
  /\ ~CacheAccess' => track_cache' = track_cache
  /\ CacheAccess'
       => \A e \in Entries(track_cache) \ Entries(track_cache') :
            \/ now - e.created_at > 15
            \/ last'.op = "provider_responds" /\ e.track_id = last'.track_id

\* C20: the cache is swept on every access and only then
C20_LazySweep == []C20_SweptAfterAccess /\ [][C20_OnlyAccessRemoves]_vars

\* a read of one track id, answered 200, swept another track that had expired
C20_Witness ==
  /\ last.op = "get_cached_track" /\ last.status = 200
  /\ \E t \in DOMAIN put_log :
       t # last.track_id /\ Age(t) > 15 /\ t \notin cache_ids(track_cache)

====
